---- MODULE Spec2Model ----
(***************************************************************************)
(* A model of the Antler portfolio scraper: the pagination and dedup       *)
(* controller (AntlerPortfolioScraper.scrapePortfolio, extractCompanyData),*)
(* the per-page extraction it drives, the files it writes and the exit     *)
(* status of main().                                                       *)
(*                                                                         *)
(* Strings the code takes apart (names, hrefs) are sequences of            *)
(* one-character strings, so that createSlug and the host-name fallback    *)
(* are computed and not assumed.                                           *)
(***************************************************************************)
EXTENDS Integers, Sequences, FiniteSets, TLC

VARIABLES
    pc,             \* position of the single thread of control
    config,         \* this.config (maxPages, retryAttempts, delay)
    companies,      \* this.companies
    progress,       \* this.progress
    currentPage,    \* local currentPage of extractCompanyData
    hasMorePages,   \* local hasMorePages of extractCompanyData
    pageCompanies,  \* local pageCompanies of the current loop iteration
    files,          \* what writeJsonFile has written: all.json, meta.json, <slug>.json, industries
    calls,          \* calls made on the page fetcher and the timer, in order
    log,            \* the logProgress lines that tell the outcomes apart, in order
    exitCode,       \* the process's completion status once it has ended
    extraction      \* the locals of extractCompaniesFromCurrentPage while it is followed
                    \* link by link

vars == <<pc, config, companies, progress, currentPage, hasMorePages,
          pageCompanies, files, calls, log, exitCode, extraction>>

-----------------------------------------------------------------------------
(* Bounds of the model *)

\* largest maxPages a run is configured with
MaxPagesCfg == 3
\* largest number of candidate links on one page
MaxLinks == 2
\* largest number of candidate links on a page whose extraction is followed link by link
MaxExtractLinks == 3
\* largest number of href="#" anchors in a card
MaxHashLinks == 2

-----------------------------------------------------------------------------
(* Characters and strings *)

LowerSeq == <<"a", "b", "c", "d", "e", "f", "g", "h", "i", "j", "k", "l", "m",
              "n", "o", "p", "q", "r", "s", "t", "u", "v", "w", "x", "y", "z">>
UpperSeq == <<"A", "B", "C", "D", "E", "F", "G", "H", "I", "J", "K", "L", "M",
              "N", "O", "P", "Q", "R", "S", "T", "U", "V", "W", "X", "Y", "Z">>
Lower == {LowerSeq[i] : i \in 1..Len(LowerSeq)}
Upper == {UpperSeq[i] : i \in 1..Len(UpperSeq)}
Digit == {"0", "1", "2", "3", "4", "5", "6", "7", "8", "9"}

\* String.prototype.toLowerCase on one character
ToLowerChar(c) ==
    IF c \in Upper THEN LowerSeq[CHOOSE i \in 1..Len(UpperSeq) : UpperSeq[i] = c] ELSE c

\* String.prototype.toUpperCase on one character
ToUpperChar(c) ==
    IF c \in Lower THEN UpperSeq[CHOOSE i \in 1..Len(LowerSeq) : LowerSeq[i] = c] ELSE c

ToLowerCase(s) == [i \in 1..Len(s) |-> ToLowerChar(s[i])]

\* [a-z0-9]
IsSlugChar(c) == c \in Lower \cup Digit

\* the string without its first n characters
Drop(s, n) == IF n >= Len(s) THEN <<>> ELSE SubSeq(s, n + 1, Len(s))

\* the length of the longest prefix of s made of characters outside [a-z0-9]
RECURSIVE RunLength(_)
RunLength(s) ==
    IF s = <<>> \/ IsSlugChar(Head(s)) THEN 0 ELSE 1 + RunLength(Tail(s))

\* .replace(/[^a-z0-9]+/g, '-')
RECURSIVE CollapseRuns(_)
CollapseRuns(s) ==
    IF s = <<>> THEN <<>>
    ELSE IF IsSlugChar(Head(s)) THEN <<Head(s)>> \o CollapseRuns(Tail(s))
    ELSE <<"-">> \o CollapseRuns(Drop(s, RunLength(s)))

\* .replace(/(^-|-$)/g, '')
StripDashes(s) ==
    LET a == IF s # <<>> /\ Head(s) = "-" THEN Tail(s) ELSE s
    IN  IF a # <<>> /\ a[Len(a)] = "-" THEN SubSeq(a, 1, Len(a) - 1) ELSE a

createSlug(name) == StripDashes(CollapseRuns(ToLowerCase(name)))

IsSpace(c) == c = " "

\* String.prototype.trim
RECURSIVE TrimLeft(_)
TrimLeft(s) == IF s # <<>> /\ IsSpace(Head(s)) THEN TrimLeft(Tail(s)) ELSE s

RECURSIVE TrimRight(_)
TrimRight(s) ==
    IF s # <<>> /\ IsSpace(s[Len(s)]) THEN TrimRight(SubSeq(s, 1, Len(s) - 1)) ELSE s

Trim(s) == TrimRight(TrimLeft(s))

\* the characters of s before the first occurrence of c (all of s when there is none)
RECURSIVE Before(_, _)
Before(s, c) ==
    IF s = <<>> \/ Head(s) = c THEN <<>> ELSE <<Head(s)>> \o Before(Tail(s), c)

HttpsPrefix == <<"h", "t", "t", "p", "s", ":", "/", "/">>
HttpPrefix == <<"h", "t", "t", "p", ":", "/", "/">>

StartsWith(s, p) == Len(s) >= Len(p) /\ SubSeq(s, 1, Len(p)) = p

\* website.replace(/^https?:\/\//, '')
StripScheme(url) ==
    IF StartsWith(url, HttpsPrefix) THEN Drop(url, Len(HttpsPrefix))
    ELSE IF StartsWith(url, HttpPrefix) THEN Drop(url, Len(HttpPrefix))
    ELSE url

\* the name taken from the website's host: its first DNS label, capitalised.
\* split('.') of the host gives the text before the first dot as its first part,
\* which is also the last part when the host has no dot.
NameFromUrl(website) ==
    LET host  == Before(StripScheme(website), "/")
        label == Before(host, ".")
    IN  IF label = <<>> THEN <<>>
        ELSE <<ToUpperChar(Head(label))>> \o Tail(label)

-----------------------------------------------------------------------------
(* Text classifiers *)

\* String.prototype.includes
Contains(s, sub) ==
    \E i \in 1..(Len(s) - Len(sub) + 1) : SubSeq(s, i, i + Len(sub) - 1) = sub

\* the locations of isLocationText
LocationNames ==
    << <<"A", "u", "s", "t", "r", "a", "l", "i", "a">>,
       <<"B", "r", "a", "z", "i", "l">>,
       <<"C", "a", "n", "a", "d", "a">>,
       <<"D", "e", "n", "m", "a", "r", "k">>,
       <<"F", "i", "n", "l", "a", "n", "d">>,
       <<"F", "r", "a", "n", "c", "e">>,
       <<"G", "e", "r", "m", "a", "n", "y">>,
       <<"I", "n", "d", "i", "a">>,
       <<"I", "n", "d", "o", "n", "e", "s", "i", "a">>,
       <<"J", "a", "p", "a", "n">>,
       <<"K", "e", "n", "y", "a">>,
       <<"K", "o", "r", "e", "a">>,
       <<"M", "a", "l", "a", "y", "s", "i", "a">>,
       <<"N", "e", "t", "h", "e", "r", "l", "a", "n", "d", "s">>,
       <<"N", "i", "g", "e", "r", "i", "a">>,
       <<"N", "o", "r", "w", "a", "y">>,
       <<"S", "a", "u", "d", "i", " ", "A", "r", "a", "b", "i", "a">>,
       <<"S", "i", "n", "g", "a", "p", "o", "r", "e">>,
       <<"S", "w", "e", "d", "e", "n">>,
       <<"U", "K">>,
       <<"U", "S">>,
       <<"U", "n", "i", "t", "e", "d", " ", "A", "r", "a", "b", " ", "E", "m", "i", "r", "a", "t", "e", "s">>,
       <<"V", "i", "e", "t", "n", "a", "m">>,
       <<"S", "p", "a", "i", "n">>,
       <<"P", "o", "r", "t", "u", "g", "a", "l">> >>

\* the sectors of isSectorText, and its generic tokens
SectorNames ==
    << <<"E", "n", "e", "r", "g", "y", " ", "a", "n", "d", " ", "C", "l", "i", "m", "a", "t", "e", "T", "e", "c", "h">>,
       <<"C", "l", "i", "m", "a", "t", "e">>,
       <<"B", "2", "B", " ", "S", "o", "f", "t", "w", "a", "r", "e">>,
       <<"C", "o", "n", "s", "u", "m", "e", "r", "T", "e", "c", "h">>,
       <<"F", "i", "n", "T", "e", "c", "h">>,
       <<"H", "e", "a", "l", "t", "h", " ", "a", "n", "d", " ", "B", "i", "o", "T", "e", "c", "h">>,
       <<"R", "e", "a", "l", " ", "E", "s", "t", "a", "t", "e", " ", "a", "n", "d", " ", "P", "r", "o", "p", "T", "e", "c", "h">>,
       <<"I", "n", "d", "u", "s", "t", "r", "i", "a", "l", "s">> >>

SectorTokens ==
    << <<"t", "e", "c", "h">>,
       <<"s", "o", "f", "t", "w", "a", "r", "e">>,
       <<"s", "e", "r", "v", "i", "c", "e">>,
       <<"p", "l", "a", "t", "f", "o", "r", "m">> >>

\* some entry of the list occurs in the text, case-insensitively
ContainsAny(text, names) ==
    \E k \in 1..Len(names) : Contains(ToLowerCase(text), ToLowerCase(names[k]))

isLocationText(text) == ContainsAny(text, LocationNames)

\* /^[A-Z][a-z]+( [A-Z][a-z]+)*$/ : words of one capital and at least one small
\* letter, separated by single spaces
IsProperCaseWords(text) ==
    /\ text # <<>>
    /\ text[Len(text)] \in Lower
    /\ \A i \in 1..Len(text) :
          \/ /\ text[i] \in Upper
             /\ i = 1 \/ text[i - 1] = " "
             /\ i < Len(text) /\ text[i + 1] \in Lower
          \/ /\ text[i] \in Lower
             /\ i > 1 /\ text[i - 1] \in Upper \cup Lower
          \/ /\ text[i] = " "
             /\ i > 1 /\ text[i - 1] \in Lower
             /\ i < Len(text) /\ text[i + 1] \in Upper

isSectorText(text) ==
    \/ ContainsAny(text, SectorNames)
    \/ ContainsAny(text, SectorTokens)
    \/ IsProperCaseWords(text)

\* what the suffix /,?\s*(UK|USA|US)$/i matches at the end of a location: the
\* country code, the spaces before it and one comma before those
CountrySuffixLength(location) ==
    LET low  == ToLowerCase(location)
        n    == Len(low)
        EndsWith(x) == n >= Len(x) /\ SubSeq(low, n - Len(x) + 1, n) = x
        code == IF EndsWith(<<"u", "s", "a">>) THEN 3
                ELSE IF EndsWith(<<"u", "k">>) \/ EndsWith(<<"u", "s">>) THEN 2
                ELSE 0
        rest == SubSeq(low, 1, n - code)
        sp   == Len(rest) - Len(TrimRight(rest))
        com  == IF Len(rest) - sp >= 1 /\ rest[Len(rest) - sp] = "," THEN 1 ELSE 0
    IN  IF code = 0 THEN 0 ELSE code + sp + com

\* normalizeLocation
normalizeLocation(location) ==
    Trim(SubSeq(location, 1, Len(location) - CountrySuffixLength(location)))

-----------------------------------------------------------------------------
(* One page's candidate links and the record builder *)

\* the text of a string literal of the source, as characters
FinTech == <<"F", "i", "n", "T", "e", "c", "h">>
Unknown == <<"U", "n", "k", "n", "o", "w", "n">>
AntlerPrefix == <<"a", "n", "t", "l", "e", "r", "-">>

Href(host) == HttpsPrefix \o host

\* The candidate links a rendered page can hold once the non-company links are
\* filtered out: each is an anchor with its href and what its card offers the
\* name chain (heading, class hint, bold text, image alt) and the sector tag.
\* A card also has the texts of its href="#" anchors (hashLinks), the bracketed
\* tokens of its text (brackets), and whether some query on it throws inside
\* extractCompanyFromElement (throws). A card with a sector tag has that tag as
\* its only href="#" anchor.
NoText == <<>>
Card(href, heading, classHint, bold, alt, sectorTag) ==
    [href |-> href, heading |-> heading, classHint |-> classHint,
     bold |-> bold, alt |-> alt,
     hashLinks |-> IF sectorTag = NoText THEN <<>> ELSE <<sectorTag>>,
     brackets |-> <<>>, throws |-> FALSE]

Cards ==
    { Card(Href(<<"a", "b", ".", "c", "o">>), <<"A", "b">>, NoText, NoText, NoText, FinTech),
      Card(Href(<<"z", "z", ".", "i", "o">>), NoText, <<"a", "b", "!">>, NoText, NoText, NoText),
      Card(Href(<<"z", "z", ".", "i", "o">>), NoText, NoText, NoText, NoText, NoText),
      Card(Href(<<"a", "b", ".", "c", "o">>), NoText, NoText, NoText, <<"C">>, NoText),
      Card(Href(<<"k", "9", ".", "i", "o">>), NoText, NoText, <<"K", " ", "9">>, NoText, FinTech) }

\* every list of at most n candidate links
LinkLists(n) == UNION {[1..k -> Cards] : k \in 0..n}

\* a || b on strings: the first operand unless it is empty
OrElse(a, b) == IF a # <<>> THEN a ELSE b

\* the location and sector taken from the href="#" anchors of a card, lines 277-304
ClassifyHashLinks(hashLinks) ==
    LET none == [location |-> <<>>, sector |-> <<>>] IN
    IF Len(hashLinks) >= 2
    THEN LET firstLink  == Trim(hashLinks[1])
             secondLink == Trim(hashLinks[2])
         IN  IF isLocationText(firstLink)
             THEN [location |-> firstLink,
                   sector   |-> IF isSectorText(secondLink) THEN secondLink ELSE <<>>]
             ELSE IF isSectorText(firstLink)
             THEN [location |-> IF isLocationText(secondLink) THEN secondLink ELSE <<>>,
                   sector   |-> firstLink]
             ELSE none
    ELSE IF Len(hashLinks) = 1
    THEN LET linkText == Trim(hashLinks[1])
         IN  IF isLocationText(linkText) THEN [none EXCEPT !.location = linkText]
             ELSE IF isSectorText(linkText) THEN [none EXCEPT !.sector = linkText]
             ELSE none
    ELSE none

\* the loop over the bracketed tokens of the card text, lines 311-318
RECURSIVE ClassifyBrackets(_, _)
ClassifyBrackets(tokens, found) ==
    IF tokens = <<>> THEN found
    ELSE LET text == Trim(Head(tokens))
             next == IF found.location = <<>> /\ isLocationText(text)
                     THEN [found EXCEPT !.location = text]
                     ELSE IF found.sector = <<>> /\ isSectorText(text)
                                /\ ~isLocationText(text)
                     THEN [found EXCEPT !.sector = text]
                     ELSE found
         IN  ClassifyBrackets(Tail(tokens), next)

\* location and sector of a card: the href="#" anchors, and the bracketed tokens
\* when the anchors gave neither, lines 274-320
LocationAndSector(card) ==
    LET fromLinks == ClassifyHashLinks(card.hashLinks)
    IN  IF fromLinks.location = <<>> /\ fromLinks.sector = <<>>
        THEN ClassifyBrackets(card.brackets, fromLinks)
        ELSE fromLinks

\* extractCompanyFromElement: the record of one candidate, as a list of one record,
\* or the empty list for null
extractCompanyFromElement(card) ==
    LET website == card.href
        found   == OrElse(Trim(card.heading),
                     OrElse(Trim(card.classHint),
                       OrElse(Trim(card.bold), card.alt)))
        name    == IF found = <<>> THEN NameFromUrl(website) ELSE found
        slug    == createSlug(name)
        tags    == LocationAndSector(card)
    IN  IF card.throws THEN <<>>
        ELSE IF website = <<>> \/ Len(website) < 5 THEN <<>>
        ELSE IF name = <<>> \/ Len(name) < 2 THEN <<>>
        ELSE << [id           |-> AntlerPrefix \o slug,
                 name         |-> Trim(name),
                 slug         |-> slug,
                 website      |-> IF StartsWith(website, <<"h", "t", "t", "p">>)
                                  THEN website ELSE HttpsPrefix \o website,
                 founded_year |-> 0,
                 location     |-> OrElse(normalizeLocation(tags.location), Unknown),
                 sector       |-> OrElse(tags.sector, Unknown)] >>

\* the loop of extractCompaniesFromCurrentPage over the candidate links: a link
\* whose href was already seen on this page is skipped, the others are built
RECURSIVE ExtractLinks(_, _)
ExtractLinks(links, processedWebsites) ==
    IF links = <<>> THEN <<>>
    ELSE IF Head(links).href \in processedWebsites
         THEN ExtractLinks(Tail(links), processedWebsites)
         ELSE extractCompanyFromElement(Head(links))
                \o ExtractLinks(Tail(links), processedWebsites \cup {Head(links).href})

extractCompaniesFromCurrentPage(links) == ExtractLinks(links, {})

\* what extractCompaniesFromCurrentPage can return for a page of at most MaxLinks
\* candidate links
PageResults == {extractCompaniesFromCurrentPage(links) : links \in LinkLists(MaxLinks)}

-----------------------------------------------------------------------------
(* Statistics and files *)

\* the values a list of keys holds
Range(keys) == {keys[i] : i \in 1..Len(keys)}

\* one frequency table of generateCompanyStats: key -> number of records with it
Distribution(keys) ==
    [v \in Range(keys) |-> Cardinality({i \in 1..Len(keys) : keys[i] = v})]

\* the key of each record of a list, for each of the three tables
SectorsOf(list) == [i \in 1..Len(list) |-> list[i].sector]
LocationsOf(list) == [i \in 1..Len(list) |-> list[i].location]
YearsOf(list) == [i \in 1..Len(list) |-> list[i].founded_year]
SlugsOf(list) == [i \in 1..Len(list) |-> list[i].slug]

\* generateCompanyStats, without the lastUpdated timestamp
generateCompanyStats(list) ==
    [totalCompanies       |-> Len(list),
     sectorDistribution   |-> Distribution(SectorsOf(list)),
     locationDistribution |-> Distribution(LocationsOf(list)),
     yearDistribution     |-> Distribution(YearsOf(list))]

\* the last record of a list with the given slug: what <slug>.json holds after the
\* loop of generateOutputFiles wrote every record in order
LastWithSlug(list, slug) ==
    list[CHOOSE i \in 1..Len(list) :
            /\ list[i].slug = slug
            /\ \A j \in (i + 1)..Len(list) : list[j].slug # slug]

\* the files of a run before anything is written: all.json and meta.json hold at
\* most one value (a list of length 0 or 1), the per-record and per-sector files
\* are keyed by their file name
NoFiles == [all |-> <<>>, meta |-> <<>>, company |-> <<>>, industries |-> <<>>]

\* a page save that forgets the statistics file
savePageCompaniesNoStats(f, list) == [f EXCEPT !.all = <<list>>]

\* savePageCompanies: the aggregate files only
savePageCompanies(f, list) ==
    [f EXCEPT !.all = <<list>>, !.meta = <<generateCompanyStats(list)>>]

\* the file name generateSectorFiles gives each record's sector
SectorSlugsOf(list) == [i \in 1..Len(list) |-> createSlug(list[i].sector)]

\* generateSectorFiles: one file per slugified sector, holding the records of
\* that sector in list order
generateSectorFiles(list) ==
    [g \in Range(SectorSlugsOf(list)) |->
        SelectSeq(list, LAMBDA c : createSlug(c.sector) = g)]

\* generateOutputFiles: the aggregate files, one file per record, the sector files
generateOutputFiles(f, list) ==
    [all        |-> <<list>>,
     meta       |-> <<generateCompanyStats(list)>>,
     company    |-> [s \in Range(SlugsOf(list)) |-> LastWithSlug(list, s)],
     industries |-> generateSectorFiles(list)]

-----------------------------------------------------------------------------
(* The run *)

\* the defaults of the constructor, and the fixed waits of extractCompanyData
DefaultDelay == 2000
DefaultRetryAttempts == 3
SettleMs == 2000
SelectorTimeoutMs == 15000

Goto(page) == [op |-> "goto", arg |-> page]
Sleep(ms) == [op |-> "sleep", arg |-> ms]
WaitForSelector == [op |-> "waitForSelector", arg |-> SelectorTimeoutMs]

Logged(msg, page) == [msg |-> msg, page |-> page]

\* extractCompaniesFromCurrentPage not being followed: in the run it is one step
\* (Extract), and its locals are not kept
NoExtraction ==
    [links |-> <<>>, i |-> 0, processedWebsites |-> {}, companies |-> <<>>,
     element |-> <<>>, skipped |-> FALSE, company |-> <<>>, returned |-> FALSE]

\* the constructor merges the caller's options over the defaults: the delay is
\* the default or a caller's shorter one
Configs ==
    [maxPages : 0..MaxPagesCfg, retryAttempts : {0, DefaultRetryAttempts},
     delay : {DefaultDelay, DefaultDelay \div 2}]

Init ==
    /\ pc = "init"
    /\ config \in Configs
    /\ companies = <<>>
    /\ progress = [totalCompanies |-> 0, processedCompanies |-> 0,
                   currentPage |-> 0, errors |-> <<>>]
    /\ currentPage = 0
    /\ hasMorePages = FALSE
    /\ pageCompanies = <<>>
    /\ files = NoFiles
    /\ calls = <<>>
    /\ log = <<>>
    /\ exitCode = -1
    /\ extraction = NoExtraction

\* main's catch: the failure is logged and the process exits with status 1
MainCatch(entries) ==
    /\ log' = log \o entries \o <<Logged("Scraping failed", 0)>>
    /\ exitCode' = 1
    /\ pc' = "exited"

\* main: scraper.init() launches the browser, or throws
MainInit ==
    /\ pc = "init"
    /\ \/ /\ pc' = "scrape"
          /\ UNCHANGED <<log, exitCode>>
       \/ MainCatch(<<>>)
    /\ UNCHANGED <<extraction, config, companies, progress, currentPage, hasMorePages,
                   pageCompanies, files, calls>>

\* scrapePortfolio: the navigation to the base URL, which is page 1. On success
\* extractCompanyData starts with currentPage = 1; on failure the catch of
\* scrapePortfolio records the error and rethrows to main.
ScrapeGoto ==
    /\ pc = "scrape"
    /\ calls' = Append(calls, Goto(1))
    /\ \/ /\ currentPage' = 1
          /\ hasMorePages' = TRUE
          /\ pc' = "loop"
          /\ UNCHANGED <<progress, log, exitCode>>
       \/ /\ progress' = [progress EXCEPT
                !.errors = Append(@, "Scraping error: NavigationError")]
          /\ MainCatch(<<Logged("Error during scraping", 0)>>)
          /\ UNCHANGED <<currentPage, hasMorePages>>
    /\ UNCHANGED <<extraction, config, companies, pageCompanies, files>>

\* a loop condition that lets one page too many through
LoopConditionOffByOne == hasMorePages /\ currentPage <= config.maxPages + 1

\* the condition of the while loop of extractCompanyData
LoopCondition == hasMorePages /\ currentPage <= config.maxPages

\* the head of the while loop: another iteration, or the end of
\* extractCompanyData, which sets progress.totalCompanies
LoopHead ==
    /\ pc = "loop"
    /\ IF LoopCondition
       THEN /\ pc' = IF currentPage > 1 THEN "navigate" ELSE "wait"
            /\ UNCHANGED progress
       ELSE /\ pc' = "generate"
            /\ progress' = [progress EXCEPT !.totalCompanies = Len(companies)]
    /\ UNCHANGED <<extraction, config, companies, currentPage, hasMorePages, pageCompanies,
                   files, calls, log, exitCode>>

\* a catch that leaves the loop running, so that the failed page is tried again
HasMoreAfterErrorRetry == TRUE

\* what the catch inside the loop leaves in hasMorePages
HasMoreAfterError == FALSE

\* the catch inside the loop of extractCompanyData: the error is logged to the
\* console and the loop is told to stop
PageCatch ==
    /\ log' = Append(log, Logged("Error extracting from page", currentPage))
    /\ hasMorePages' = HasMoreAfterError
    /\ pc' = "loop"

\* a navigation that waits first and navigates afterwards
NavigateCallsDelayFirst(page, delay) == <<Sleep(delay), Goto(page)>>

\* the calls of the navigation to a page after the first
NavigateCalls(page, delay) == <<Goto(page), Sleep(delay)>>

\* pages after the first: page.goto and the configured delay, or a navigation error
Navigate ==
    /\ pc = "navigate"
    /\ \/ /\ calls' = calls \o NavigateCalls(currentPage, config.delay)
          /\ pc' = "wait"
          /\ UNCHANGED <<hasMorePages, log>>
       \/ /\ calls' = Append(calls, Goto(currentPage))
          /\ PageCatch
    /\ UNCHANGED <<extraction, config, companies, progress, currentPage, pageCompanies,
                   files, exitCode>>

\* waitForSelector, then the settling sleep. The selector is found or the wait
\* times out: the timeout is caught on the spot and, apart from the wording of a
\* console line that the model does not keep, both outcomes go on alike.
WaitForContent ==
    /\ pc = "wait"
    /\ \E found \in BOOLEAN :
          calls' = calls \o <<WaitForSelector, Sleep(SettleMs)>>
    /\ pc' = "extract"
    /\ UNCHANGED <<extraction, config, companies, progress, currentPage, hasMorePages,
                   pageCompanies, files, log, exitCode>>

\* extractCompaniesFromCurrentPage on whatever the page holds, or an exception
\* out of it (page.content() rejects)
Extract ==
    /\ pc = "extract"
    /\ \/ \E result \in PageResults :
            /\ pageCompanies' = result
            /\ pc' = "merge"
            /\ UNCHANGED <<hasMorePages, log>>
       \/ /\ PageCatch
          /\ UNCHANGED pageCompanies
    /\ UNCHANGED <<extraction, config, companies, progress, currentPage, files, calls, exitCode>>

\* the slugs of the accumulated records
ExistingSlugs(list) == {list[i].slug : i \in 1..Len(list)}

\* a filter that compares websites where the code compares slugs
NewCompaniesByWebsite(page, list) ==
    SelectSeq(page, LAMBDA c : c.website \notin {list[i].website : i \in 1..Len(list)})

\* a filter that drops nothing
NewCompaniesUnfiltered(page, list) == page

\* pageCompanies.filter(c => !existingSlugs.has(c.slug))
NewCompanies(page, list) ==
    SelectSeq(page, LAMBDA c : c.slug \notin ExistingSlugs(list))

\* the merge of a page's records into the accumulated set, lines 107-134
Merge ==
    /\ pc = "merge"
    /\ LET newCompanies == NewCompanies(pageCompanies, companies) IN
       IF pageCompanies = <<>>
       THEN /\ log' = Append(log, Logged("No companies found", currentPage))
            /\ hasMorePages' = FALSE
            /\ UNCHANGED <<companies, progress, files, currentPage>>
       ELSE IF newCompanies = <<>>
       THEN /\ log' = Append(log, Logged("No new companies found", currentPage))
            /\ hasMorePages' = FALSE
            /\ UNCHANGED <<companies, progress, files, currentPage>>
       ELSE /\ companies' = companies \o newCompanies
            /\ progress' = [progress EXCEPT
                  !.processedCompanies = @ + Len(newCompanies)]
            /\ files' = savePageCompanies(files, companies')
            /\ currentPage' = currentPage + 1
            /\ UNCHANGED <<log, hasMorePages>>
    /\ pc' = "loop"
    /\ UNCHANGED <<extraction, config, pageCompanies, calls, exitCode>>

\* generateOutputFiles, after which scrapePortfolio returns and main ends normally
Generate ==
    /\ pc = "generate"
    /\ files' = generateOutputFiles(files, companies)
    /\ log' = Append(log, Logged("Scraping completed", 0))
    /\ exitCode' = 0
    /\ pc' = "exited"
    /\ UNCHANGED <<extraction, config, companies, progress, currentPage, hasMorePages,
                   pageCompanies, calls>>

Next ==
    \/ MainInit
    \/ ScrapeGoto
    \/ LoopHead
    \/ Navigate
    \/ WaitForContent
    \/ Extract
    \/ Merge
    \/ Generate

Spec == Init /\ [][Next]_vars

-----------------------------------------------------------------------------
(* The page extraction, link by link *)

Singapore == <<"S", "i", "n", "g", "a", "p", "o", "r", "e">>
IndiaLower == <<"i", "n", "d", "i", "a">>
NotATag == <<"n", "/", "a">>
UK == <<"U", "K">>

\* a card whose extraction throws inside extractCompanyFromElement
Throwing(card) == [card EXCEPT !.throws = TRUE]

\* a card with the given href="#" anchor texts and bracketed tokens
Tagged(card, hashLinks, brackets) ==
    [card EXCEPT !.hashLinks = hashLinks, !.brackets = brackets]

\* candidate links that between them take every branch of the name chain
\* (heading, class hint, bold text, image alt, host name), miss it (a name of one
\* character) or throw
ExtractCards ==
    { Card(Href(<<"a", "b", ".", "c", "o">>), <<"A", "b">>, NoText, NoText, NoText, FinTech),
      Card(Href(<<"z", "z", ".", "i", "o">>), NoText, <<"a", "b", "!">>, NoText, NoText, NoText),
      Card(Href(<<"k", "9", ".", "i", "o">>), NoText, NoText, <<"K", " ", "9">>, NoText, FinTech),
      Card(Href(<<"z", "e", "d", ".", "i", "o">>), <<" ">>, NoText, NoText, <<"Z", "e", "d">>, NoText),
      Card(Href(<<"a", "b", ".", "c", "o">>), NoText, NoText, NoText, <<" ", "C">>, NoText),
      Card(Href(<<"a", "b", ".", "c", "o">>), NoText, NoText, NoText, <<"C">>, NoText),
      Card(Href(<<"z", "z", ".", "i", "o">>), NoText, NoText, NoText, NoText, NoText),
      Card(Href(<<"a", ".", "i", "o">>), NoText, NoText, NoText, NoText, NoText),
      Throwing(Card(Href(<<"a", "b", ".", "c", "o">>), <<"A", "b">>, NoText, NoText, NoText, FinTech)),
      Throwing(Card(Href(<<"q", "1", ".", "i", "o">>), <<"Q", "1">>, NoText, NoText, NoText, NoText)) }

\* the texts of href="#" anchors: a location that is also a sector by its shape, a
\* location only, a sector only, neither, and a country code
TagTexts == {Singapore, IndiaLower, FinTech, NotATag, UK}

\* one card under every list of at most MaxHashLinks anchor texts, without
\* bracketed tokens or with one
TagCards ==
    { Tagged(Card(Href(<<"a", "b", ".", "c", "o">>), <<"A", "b">>, NoText, NoText, NoText, NoText),
             hashLinks, brackets) :
        hashLinks \in UNION {[1..k -> TagTexts] : k \in 0..MaxHashLinks},
        brackets \in {<<>>, <<IndiaLower>>, <<FinTech, Singapore>>} }

\* a loop that stops at the first candidate that gives no record
LoopStepAbortsOnNull(x) ==
    LET element == x.links[x.i + 1]
        website == element.href
        company == extractCompanyFromElement(element)
    IN  IF website \in x.processedWebsites
        THEN [x EXCEPT !.i = @ + 1, !.element = <<element>>, !.skipped = TRUE,
                       !.company = <<>>]
        ELSE [x EXCEPT !.i = IF company = <<>> THEN Len(x.links) ELSE @ + 1,
                       !.processedWebsites = @ \cup {website},
                       !.element = <<element>>, !.skipped = FALSE,
                       !.company = company,
                       !.companies = @ \o company]

\* one iteration of the loop of extractCompaniesFromCurrentPage, lines 192-208
LoopStep(x) ==
    LET element == x.links[x.i + 1]
        website == element.href
        company == extractCompanyFromElement(element)
    IN  IF website \in x.processedWebsites
        THEN [x EXCEPT !.i = @ + 1, !.element = <<element>>, !.skipped = TRUE,
                       !.company = <<>>]
        ELSE [x EXCEPT !.i = @ + 1,
                       !.processedWebsites = @ \cup {website},
                       !.element = <<element>>, !.skipped = FALSE,
                       !.company = company,
                       !.companies = @ \o company]

\* extractCompaniesFromCurrentPage is entered with the candidate links of a page
ExtractionOf(links) == [NoExtraction EXCEPT !.links = links]

\* the run stands at the call of extractCompaniesFromCurrentPage for page 1
AtExtract ==
    /\ pc = "extract"
    /\ config = [maxPages |-> MaxPagesCfg, retryAttempts |-> DefaultRetryAttempts,
                 delay |-> DefaultDelay]
    /\ companies = <<>>
    /\ progress = [totalCompanies |-> 0, processedCompanies |-> 0,
                   currentPage |-> 0, errors |-> <<>>]
    /\ currentPage = 1
    /\ hasMorePages = TRUE
    /\ pageCompanies = <<>>
    /\ files = NoFiles
    /\ calls = <<Goto(1), WaitForSelector, Sleep(SettleMs)>>
    /\ log = <<>>
    /\ exitCode = -1

ExtractInit ==
    /\ AtExtract
    /\ \E links \in UNION {[1..k -> ExtractCards] : k \in 0..MaxExtractLinks} :
          extraction = ExtractionOf(links)

\* the page holds one candidate link, with some href="#" anchors in its card
TagsInit ==
    /\ AtExtract
    /\ \E card \in TagCards : extraction = ExtractionOf(<<card>>)

\* the body of the for loop, once per candidate link
ExtractLink ==
    /\ pc = "extract"
    /\ ~extraction.returned
    /\ extraction.i < Len(extraction.links)
    /\ extraction' = LoopStep(extraction)
    /\ UNCHANGED <<pc, config, companies, progress, currentPage, hasMorePages,
                   pageCompanies, files, calls, log, exitCode>>

\* the end of the for loop: the records go back to extractCompanyData, line 105
ExtractReturn ==
    /\ pc = "extract"
    /\ ~extraction.returned
    /\ extraction.i >= Len(extraction.links)
    /\ extraction' = [extraction EXCEPT !.returned = TRUE]
    /\ pageCompanies' = extraction.companies
    /\ pc' = "merge"
    /\ UNCHANGED <<config, companies, progress, currentPage, hasMorePages,
                   files, calls, log, exitCode>>

ExtractNext ==
    \/ ExtractLink
    \/ ExtractReturn

SpecExtract == ExtractInit /\ [][ExtractNext]_vars

SpecTags == TagsInit /\ [][ExtractNext]_vars

-----------------------------------------------------------------------------
(* Properties *)

\* the pages the page fetcher was asked for, in order
GotoPages == SelectSeq(calls, LAMBDA c : c.op = "goto")

\* a navigation failure or an extraction exception happened in this run
LoopFailure == \E i \in 1..Len(log) : log[i].msg = "Error extracting from page"
FirstNavigationFailure == \E i \in 1..Len(log) : log[i].msg = "Error during scraping"
RunLevelFailure == LoopFailure \/ FirstNavigationFailure

\* the process has ended
Ended == pc = "exited"
\* the run reached DONE: generateOutputFiles ran and main ended normally
Done == Ended /\ exitCode = 0

\* C1 (as claimed): the accumulated set never holds two records with equal slug,
\* whatever the pages hold, also when one page yields two records with the same
\* slug under different hrefs.
C1_NoDuplicateSlugs ==
    \A i, j \in 1..Len(companies) :
        i # j => companies[i].slug # companies[j].slug

\* every record of the current page has a slug the accumulated set already holds
\* (so also when the page yielded no record)
NoNewRecord ==
    \A i \in 1..Len(pageCompanies) :
        \E j \in 1..Len(companies) : companies[j].slug = pageCompanies[i].slug

\* the loop was told to stop
Halted == pc \in {"loop", "generate", "exited"} /\ ~hasMorePages

\* C2: when page k yields no record, or only records whose slugs are already
\* accumulated, the merge of page k leaves the accumulated set, the progress and
\* the files as they are and stops the loop at page k; once the loop is stopped
\* no page is fetched, waited for or extracted again.
C2_HaltsOnNoNewRecords ==
    /\ [][(pc = "merge" /\ NoNewRecord) =>
            /\ companies' = companies
            /\ progress' = progress
            /\ files' = files
            /\ currentPage' = currentPage
            /\ calls' = calls
            /\ Halted']_vars
    /\ [][Halted =>
            /\ Halted'
            /\ calls' = calls
            /\ companies' = companies
            /\ currentPage' = currentPage]_vars

\* C2 witness: the loop stopped at page 2, whose records were all known already
C2_Witness ==
    /\ Halted
    /\ currentPage = 2
    /\ pageCompanies # <<>>
    /\ NoNewRecord
    /\ log # <<>> /\ log[Len(log)] = Logged("No new companies found", 2)
    /\ GotoPages = <<Goto(1), Goto(2)>>

\* C3 (as claimed): no page with a number above maxPages is ever fetched.
C3_NoFetchAboveMaxPages ==
    \A i \in 1..Len(calls) :
        calls[i].op = "goto" => calls[i].arg <= config.maxPages

\* C3 (amended): with maxPages >= 1 no page with a number above maxPages is ever
\* fetched; for every maxPages no page above it is waited for, extracted or
\* merged; and once page maxPages is merged the loop is over.
C3_MaxPagesCeiling ==
    /\ config.maxPages >= 1 => C3_NoFetchAboveMaxPages
    /\ pc \in {"navigate", "wait", "extract", "merge"} => currentPage <= config.maxPages
    /\ currentPage <= config.maxPages + 1
    /\ Len(GotoPages) <= IF config.maxPages >= 1 THEN config.maxPages ELSE 1

\* C3 witness: a run with maxPages = 3 in which each of the pages 1..3 added a
\* record and which then ended normally without a fourth fetch
C3_Witness ==
    /\ Done
    /\ config.maxPages = 3
    /\ hasMorePages
    /\ currentPage = 4
    /\ Len(companies) >= 3
    /\ GotoPages = <<Goto(1), Goto(2), Goto(3)>>

\* C4 (as claimed): after a run in which a navigation failure or an extraction
\* exception occurred on some page, the errors list of the progress record is not
\* empty.
C4_FailureIsInErrorsList ==
    (Ended /\ RunLevelFailure) => progress.errors # <<>>

\* C5 (as claimed): a run with a run-level error ends with the aggregate
\* collection and the statistics persisted from exactly the accumulated records.
C5_PersistedAfterFailure ==
    (Ended /\ RunLevelFailure) =>
        /\ files.all = <<companies>>
        /\ files.meta = <<generateCompanyStats(companies)>>

\* The part of C5 the code keeps: a failure caught inside the loop leaves the
\* accumulated records as they are, and the run then ends with the aggregate
\* collection and the statistics persisted from exactly those records.
C5_HoldsForLoopFailures ==
    /\ [][(LoopFailure' /\ ~LoopFailure) => companies' = companies]_vars
    /\ []((Ended /\ LoopFailure) =>
            /\ files.all = <<companies>>
            /\ files.meta = <<generateCompanyStats(companies)>>)

\* C6 (as claimed): a run with a run-level failure ends with a non-zero
\* completion status.
C6_FailureExitsNonZero ==
    (Ended /\ RunLevelFailure) => exitCode # 0

\* C7: whenever a merge adds records, the aggregate file then holds the whole
\* accumulated set and the statistics file the statistics of that same set, and
\* no per-record file is written by it; at DONE the aggregate and statistics files
\* hold the whole accumulated set and its statistics; per-record files exist only
\* once the run is at DONE.
C7_PersistencePoints ==
    /\ [][companies' # companies =>
            /\ files'.all = <<companies'>>
            /\ files'.meta = <<generateCompanyStats(companies')>>
            /\ files'.meta[1].totalCompanies = Len(companies')
            /\ files'.company = files.company
            /\ files'.industries = files.industries]_vars
    /\ [](Done =>
            /\ files.all = <<companies>>
            /\ files.meta = <<generateCompanyStats(companies)>>
            /\ DOMAIN files.company = {companies[i].slug : i \in 1..Len(companies)})
    /\ []((files.company # <<>> \/ files.industries # <<>>) => Done)

\* C7 witness: two pages were merged, the aggregate files hold both pages'
\* records, and no per-record file exists yet
C7_Witness ==
    /\ pc = "loop"
    /\ currentPage = 3
    /\ Len(companies) >= 2
    /\ files.all = <<companies>>
    /\ files.meta # <<>> /\ files.meta[1].totalCompanies = Len(companies)
    /\ files.company = <<>>

RECURSIVE KeepUnknown(_, _)
KeepUnknown(page, slugs) ==
    IF page = <<>> THEN <<>>
    ELSE (IF Head(page).slug \in slugs THEN <<>> ELSE <<Head(page)>>)
            \o KeepUnknown(Tail(page), slugs)

\* the number of records of the current page whose slug is already accumulated
Duplicates ==
    Cardinality({i \in 1..Len(pageCompanies) :
        \E j \in 1..Len(companies) : companies[j].slug = pageCompanies[i].slug})

\* C9: when a page yields n records of which d have accumulated slugs and
\* n - d > 0, its merge appends exactly the other n - d records, in page order,
\* to the end of the accumulated set and adds n - d to processedCompanies;
\* processedCompanies never decreases.
C9_AppendsNewRecords ==
    /\ [][(pc = "merge" /\ Len(pageCompanies) - Duplicates > 0) =>
            /\ companies' = companies \o
                 KeepUnknown(pageCompanies, {companies[j].slug : j \in 1..Len(companies)})
            /\ Len(companies') = Len(companies) + Len(pageCompanies) - Duplicates
            /\ progress'.processedCompanies =
                 progress.processedCompanies + Len(pageCompanies) - Duplicates]_vars
    /\ [][progress'.processedCompanies >= progress.processedCompanies]_vars

\* C9 witness: page 2 yielded two records, one with the slug of the record page 1
\* added and one new, and the new one alone was appended and counted
C9_Witness ==
    /\ pc = "loop"
    /\ currentPage = 3
    /\ Len(companies) = 2
    /\ Len(pageCompanies) = 2
    /\ pageCompanies[1].slug = companies[1].slug
    /\ pageCompanies[1] # companies[1]
    /\ pageCompanies[2] = companies[2]
    /\ progress.processedCompanies = 2

\* C10 (as claimed): when the run halts because page k yields no record, the
\* currentPage of the progress record is k.
C10_ProgressPageAtHalt ==
    \A i \in 1..Len(log) :
        log[i].msg = "No companies found" => progress.currentPage = log[i].page

\* the candidate links of a page that are not a repetition of an earlier href
IsFirstOfHref(links, i) == \A j \in 1..(i - 1) : links[j].href # links[i].href

\* the candidate gives no record: its extraction throws, or its website or its
\* name is too short (a heuristic miss)
Fails(card) ==
    \/ card.throws
    \/ Len(card.href) < 5
    \/ Len(OrElse(Trim(card.heading), OrElse(Trim(card.classHint),
             OrElse(Trim(card.bold), OrElse(card.alt, NameFromUrl(card.href)))))) < 2

\* the records of the first n candidates that do not fail, in candidate order
RECURSIVE RecordsOfRemaining(_, _)
RecordsOfRemaining(links, n) ==
    IF n = 0 THEN <<>>
    ELSE RecordsOfRemaining(links, n - 1) \o
            (IF IsFirstOfHref(links, n) /\ ~Fails(links[n])
             THEN extractCompanyFromElement(links[n]) ELSE <<>>)

\* C11: whichever candidates of a page throw or miss, the loop goes through every
\* candidate, a failing candidate adds no record, and what the page extraction
\* returns is exactly the records of the other candidates (each href taken once),
\* in candidate order.
C11_CandidateIsolation ==
    /\ extraction.i <= Len(extraction.links)
    /\ extraction.companies = RecordsOfRemaining(extraction.links, extraction.i)
    /\ \A k \in 1..extraction.i :
          (IsFirstOfHref(extraction.links, k) /\ ~Fails(extraction.links[k]))
              => extractCompanyFromElement(extraction.links[k]) # <<>>
    /\ extraction.returned =>
          /\ extraction.i = Len(extraction.links)
          /\ pageCompanies = RecordsOfRemaining(extraction.links, Len(extraction.links))
          /\ pc = "merge"

\* C11 witness: a page of three candidates whose first throws and whose second
\* misses, and the extraction returned the record of the third alone
C11_Witness ==
    /\ extraction.returned
    /\ Len(extraction.links) = 3
    /\ extraction.links[1].throws
    /\ ~extraction.links[2].throws /\ Fails(extraction.links[2])
    /\ Len(pageCompanies) = 1
    /\ pageCompanies = extractCompanyFromElement(extraction.links[3])

\* C12 (as claimed): every record the record builder produces has a name that is
\* trimmed, not empty and at least two characters long, whichever step of the
\* name chain supplied it.
C12_NameAtLeastTwoCharacters ==
    \A k \in 1..Len(extraction.companies) :
        LET name == extraction.companies[k].name
        IN  name # <<>> /\ Trim(name) = name /\ Len(name) >= 2

\* C13 (as claimed): for every page after the first the configured inter-page
\* delay is awaited immediately before the navigation to that page is issued,
\* and nothing is awaited before the navigation to page 1.
C13_DelayBeforeNavigation ==
    \A j \in 1..Len(calls) :
        calls[j].op = "goto" =>
            IF calls[j].arg = 1 THEN j = 1
            ELSE j > 1 /\ calls[j - 1] = Sleep(config.delay)

\* C13 (amended): the navigation to page 1 is the first call and is followed by
\* the wait for content, not by the inter-page delay. For every page after the
\* first the navigation is issued first, right after the settling sleep of the
\* page before; when it succeeds the configured delay is awaited right after it,
\* and when it fails it is the last call of the run and the failure is logged.
\* Every sleep is the settling sleep after a wait for content or the configured
\* delay after a navigation to a page after the first.
C13_DelayFollowsNavigation ==
    /\ \A j \in 1..Len(calls) :
          calls[j].op = "goto" =>
              IF calls[j].arg = 1
              THEN j = 1 /\ (j < Len(calls) => calls[j + 1] = WaitForSelector)
              ELSE /\ j > 1
                   /\ calls[j - 1] = Sleep(SettleMs)
                   /\ j < Len(calls) => calls[j + 1] = Sleep(config.delay)
                   /\ j = Len(calls) =>
                        \E e \in 1..Len(log) :
                            log[e] = Logged("Error extracting from page", calls[j].arg)
    /\ \A j \in 1..Len(calls) :
          calls[j].op = "sleep" =>
              /\ j > 1
              /\ \/ calls[j - 1] = WaitForSelector /\ calls[j].arg = SettleMs
                 \/ /\ calls[j - 1].op = "goto"
                    /\ calls[j - 1].arg > 1
                    /\ calls[j].arg = config.delay

\* a run with a delay other than the settling sleep has navigated to page 2 and
\* awaited the delay after it
C13_Witness ==
    /\ config.delay # SettleMs
    /\ \E j \in 2..(Len(calls) - 1) :
          /\ calls[j] = Goto(2)
          /\ calls[j - 1] = Sleep(SettleMs)
          /\ calls[j + 1] = Sleep(config.delay)

\* the anchor texts a location-first classification of each text assigns to
\* location, and those it assigns to sector
ClassifiedLocation(texts) == {t \in texts : isLocationText(t)}
ClassifiedSector(texts) == {t \in texts : ~isLocationText(t) /\ isSectorText(t)}

\* the outcomes of classifying each of two anchor texts on its own: location is
\* one of the texts classified location, sector one of those classified sector,
\* and a field stays empty only when no text is classified for it
EachClassified(hashLinks) ==
    LET texts == {Trim(hashLinks[1]), Trim(hashLinks[2])}
        pick(set) == IF set = {} THEN {<<>>} ELSE set
    IN  [location : pick(ClassifiedLocation(texts)),
         sector   : pick(ClassifiedSector(texts))]

\* C14 (as claimed): the record of a card with exactly two href="#" anchors has
\* the location and sector that result from classifying the first and then the
\* second anchor text each on its own, location check first, whichever of
\* location, sector, both or neither the two texts match.
C14_TwoAnchorsEachClassified ==
    (/\ extraction.element # <<>>
     /\ extraction.company # <<>>
     /\ Len(extraction.element[1].hashLinks) = 2)
    => LET card    == extraction.element[1]
           company == extraction.company[1]
       IN  \E claimed \in EachClassified(card.hashLinks) :
              LET tags == IF claimed.location = <<>> /\ claimed.sector = <<>>
                          THEN ClassifyBrackets(card.brackets, claimed)
                          ELSE claimed
              IN  /\ company.location = OrElse(normalizeLocation(tags.location), Unknown)
                  /\ company.sector = OrElse(tags.sector, Unknown)

====
